---- MODULE Spec2Model ----
(***************************************************************************)
(* Linux Troubleshooting Simulator (backend): the hint provider, the       *)
(* solution verifier, issue validation, the container manager, the Flask   *)
(* API handlers and the interactive command-line loop.                     *)
(*                                                                         *)
(* Text is a sequence of one-character strings, so that len(), strip(),   *)
(* split(), splitlines(), lower() and int() are computed as Python         *)
(* computes them.  The literal text of an f-string template or of a table  *)
(* of fixed sentences is one element of such a sequence.                   *)
(***************************************************************************)
EXTENDS Integers, Sequences, FiniteSets, TLC

VARIABLES
    hint_indices,     \* hint_provider.hint_indices: issue id -> index
    active_sessions,  \* api.active_sessions: session id -> issue, container_id
    containers,       \* the Docker daemon's containers: id -> name, running
    next_id,          \* identifiers handed out so far (uuid4, container ids)
    host,             \* the host process: "up" or "down"
    cli,              \* main.start: its position and its local variables
    call,             \* the last operation performed, its inputs and its result
    log,              \* the get_hint calls made so far in the process, oldest first
    threads,          \* the requests being served: thread -> position, locals
    docker_cmds       \* the docker commands run on containers, oldest first

vars ==
    <<hint_indices, active_sessions, containers, next_id, host, cli, call, log, threads,
      docker_cmds>>

----------------------------------------------------------------------------
(* Bounds of the model.                                                    *)

\* get_hint calls recorded in log.
MaxCalls == 4
\* Issues requested of the generator in one run of the process.
MaxIssues == 2
\* Characters a verification script prints before the exit status.
MaxScriptOut == 3
\* Requests the API serves at the same time, one thread each.
MaxThreads == 2

----------------------------------------------------------------------------
(* Python text and list primitives.                                        *)

\* c * n
Rep(c, n) == [i \in 1..n |-> c]

\* str.isspace for the characters used here.
IsSpace(c) == c \in {" ", "\n"}

RECURSIVE lstrip(_)
lstrip(s) == IF s # <<>> /\ IsSpace(Head(s)) THEN lstrip(Tail(s)) ELSE s

RECURSIVE rstrip(_)
rstrip(s) ==
    IF s # <<>> /\ IsSpace(s[Len(s)]) THEN rstrip(SubSeq(s, 1, Len(s) - 1)) ELSE s

\* str.strip()
strip(s) == rstrip(lstrip(s))

RECURSIVE SplitOn(_, _, _)
\* The pieces of s between the characters of seps, the empty pieces included;
\* cur is the piece being read.
SplitOn(s, seps, cur) ==
    IF s = <<>> THEN <<cur>>
    ELSE IF Head(s) \in seps THEN <<cur>> \o SplitOn(Tail(s), seps, <<>>)
    ELSE SplitOn(Tail(s), seps, Append(cur, Head(s)))

\* str.splitlines(): no line for the empty text, none after a final newline.
splitlines(s) ==
    IF s = <<>> THEN <<>>
    ELSE LET pieces == SplitOn(s, {"\n"}, <<>>)
         IN  IF pieces[Len(pieces)] = <<>>
             THEN SubSeq(pieces, 1, Len(pieces) - 1)
             ELSE pieces

\* str.split(): the maximal runs of non-whitespace characters.
split(s) == SelectSeq(SplitOn(s, {" ", "\n"}, <<>>), LAMBDA w : w # <<>>)

RECURSIVE join(_, _)
\* sep.join(parts)
join(sep, parts) ==
    IF parts = <<>> THEN <<>>
    ELSE IF Len(parts) = 1 THEN parts[1]
    ELSE parts[1] \o sep \o join(sep, Tail(parts))

\* dict.get(key, default)
Get(d, key, default) == IF key \in DOMAIN d THEN d[key] ELSE default

\* random.choice(list), pick being the draw.
choice(list, pick) == list[((pick - 1) % Len(list)) + 1]

\* Whether part occurs in whole as a run of consecutive elements.
Contains(whole, part) ==
    \E i \in 0..(Len(whole) - Len(part)) :
        \A j \in 1..Len(part) : whole[i + j] = part[j]

\* A JSON list, and a JSON string standing where a list is expected.
List(items) == [type |-> "list", v |-> items]
Text(chars) == [type |-> "str", v |-> chars]

----------------------------------------------------------------------------
(* Issues.                                                                 *)

\* The least lengths validate_issue accepts.
MIN_DESCRIPTION == 50
MIN_SCRIPT == 20
MIN_HINTS == 2

\* The fields of an issue that the code reads.
BaseIssue(id, hints, category, solution) ==
    [id |-> id,
     title |-> <<"T", "-">> \o id,
     description |-> Rep("d", MIN_DESCRIPTION),
     category |-> category,
     difficulty |-> <<"medium">>,
     setup_script |-> Rep("s", MIN_SCRIPT),
     verification_script |-> Rep("v", MIN_SCRIPT),
     hints |-> List(hints),
     solution |-> solution,
     base_image |-> <<"ubuntu:20.04">>]

\* An issue the generator returned without the optional key `hints`.
WithoutKey(issue, key) == [k \in DOMAIN issue \ {key} |-> issue[k]]

H1 == <<"c", "h", "e", "c", "k", " ", "l", "o", "g", "s">>
H2 == <<"c", "h", "e", "c", "k", " ", "p", "e", "r", "m", "s">>
H3 == <<"r", "u", "n", " ", "d", "f">>

SolutionLong == <<"c", "h", "m", "o", "d", " ", "a", " ", "r", "e", "s", "t", "a", "r", "t">>
SolutionShort == <<"l", "s", " ", "-", "l", "a">>

\* Issues passed to get_hint: with and without hints, with hint lists of
\* different lengths under one id, with a known and an unknown category, and
\* with a solution that is empty, has no long word, or has long words.
IssueNoHints == BaseIssue(<<"a">>, <<>>, <<"networking">>, SolutionLong)
IssueTwoHints == BaseIssue(<<"a">>, <<H1, H2>>, <<"networking">>, SolutionLong)
IssueOneHint == BaseIssue(<<"a">>, <<H3>>, <<"permissions">>, SolutionShort)
IssueThreeHints == BaseIssue(<<"b">>, <<H1, H2, H3>>, <<"file_system">>, <<>>)
IssueNoHintsKey == WithoutKey(BaseIssue(<<"b">>, <<>>, <<"log_analysis">>, <<>>), "hints")

HintIssues == {IssueNoHints, IssueTwoHints, IssueOneHint, IssueThreeHints, IssueNoHintsKey}

----------------------------------------------------------------------------
(* hint_provider.py                                                        *)

\* random.random() in hundredths, and the draws of random.choice.
RDraws == {0, 69, 70, 99}
Picks == 1..4

\* 70% chance to cycle back (random.random() < 0.7).
CYCLE_BACK == 70

\* f"Hint {label}: {text}"
Hint(label, text) == [label |-> label, text |-> text]

generic_hints ==
    [networking |-> <<
        <<"Check network connectivity with ping or traceroute.">>,
        <<"Verify DNS resolution with nslookup or dig.">>,
        <<"Check firewall settings with iptables -L.">>,
        <<"Examine network interfaces with ip addr or ifconfig.">> >>,
     file_system |-> <<
        <<"Check disk space with df -h.">>,
        <<"Verify file permissions with ls -la.">>,
        <<"Look for disk errors with dmesg | grep -i error.">>,
        <<"Check mount points with mount or cat /etc/fstab.">> >>,
     process_management |-> <<
        <<"Check running processes with ps aux.">>,
        <<"Look for high CPU usage with top.">>,
        <<"Check for zombie processes with ps aux | grep Z.">>,
        <<"Examine process details with pstree or htop.">> >>,
     permissions |-> <<
        <<"Check file ownership with ls -la.">>,
        <<"Verify user and group IDs with id.">>,
        <<"Look at access control lists with getfacl.">>,
        <<"Check sudo permissions with sudo -l.">> >>,
     service_configuration |-> <<
        <<"Check service status with systemctl status service_name.">>,
        <<"Look at service logs with journalctl -u service_name.">>,
        <<"Verify configuration files in /etc.">>,
        <<"Check for syntax errors in config files.">> >>,
     resource_usage |-> <<
        <<"Check memory usage with free -m.">>,
        <<"Look at disk I/O with iostat.">>,
        <<"Monitor system load with uptime.">>,
        <<"Check for memory leaks with valgrind.">> >>,
     package_management |-> <<
        <<"Verify package installation with dpkg -l or rpm -qa.">>,
        <<"Check for broken packages with apt --fix-broken install.">>,
        <<"Look at package repositories in /etc/apt/sources.list or /etc/yum.repos.d/.">>,
        <<"Verify package dependencies with apt-cache depends or yum deplist.">> >>]

generate_generic_hint(issue, pick) ==
    LET category == Get(issue, "category", <<"">>)
    IN  IF category[1] \in DOMAIN generic_hints
        THEN choice(generic_hints[category[1]], pick)
        ELSE <<"Try checking system logs in /var/log for error messages.">>

generate_specific_hint(issue, pick) ==
    LET solution == Get(issue, "solution", <<>>)
        keywords == SelectSeq(split(solution), LAMBDA word : Len(word) > 4)
    IN  IF solution = <<>>
        THEN <<"Look carefully at the error messages and try to understand what they're telling you.">>
        ELSE IF keywords = <<>>
        THEN <<"The solution involves a common Linux troubleshooting command.">>
        ELSE <<"The solution involves using or checking something related to '">>
             \o choice(keywords, pick) \o <<"'.">>

\* no_hints with the index initialised before the hints are looked at.
no_hints_init(indices, issue, pick) ==
    [indices |-> IF issue.id \in DOMAIN indices THEN indices ELSE indices @@ (issue.id :> 0),
     ret |-> Hint(1, generate_generic_hint(issue, pick))]

\* `if not hints`: a generic hint, returned before the index is looked at.
no_hints(indices, issue, pick) ==
    [indices |-> indices, ret |-> Hint(1, generate_generic_hint(issue, pick))]

\* init_hint_index with the index set to 0 on every call.
init_hint_index_fresh(indices, issue_id) ==
    [k \in DOMAIN indices \cup {issue_id} |-> IF k = issue_id THEN 0 ELSE indices[k]]

\* `if issue_id not in hint_indices: hint_indices[issue_id] = 0`
init_hint_index(indices, issue_id) ==
    IF issue_id \in DOMAIN indices THEN indices ELSE indices @@ (issue_id :> 0)

\* next_hint without the increment of the index.
next_hint_stuck(indices, issue_id, hints, current_index) ==
    [indices |-> indices,
     ret |-> Hint(current_index + 1, hints[current_index + 1])]

\* next_hint with the index wrapping to 0 after the last hint.
next_hint_wrap(indices, issue_id, hints, current_index) ==
    [indices |-> [indices EXCEPT ![issue_id] = (current_index + 1) % Len(hints)],
     ret |-> Hint(current_index + 1, hints[current_index + 1])]

\* `if current_index < len(hints)`: the hint at the index, which moves on by one
\* (Python's hints[i] is hints[i + 1] here).
next_hint(indices, issue_id, hints, current_index) ==
    [indices |-> [indices EXCEPT ![issue_id] = current_index + 1],
     ret |-> Hint(current_index + 1, hints[current_index + 1])]

\* cycle_back without the reset of the index.
cycle_back_keep(indices, issue_id, hints) ==
    [indices |-> indices, ret |-> Hint(1, hints[1])]

\* All hints given and random.random() < 0.7: back to the first hint.
cycle_back(indices, issue_id, hints) ==
    [indices |-> [indices EXCEPT ![issue_id] = 0], ret |-> Hint(1, hints[1])]

\* new_hint with the index moved on as in next_hint.
new_hint_advance(indices, issue, hints, pick) ==
    [indices |-> [indices EXCEPT ![issue.id] = @ + 1],
     ret |-> Hint(Len(hints) + 1, generate_specific_hint(issue, pick))]

\* All hints given and random.random() >= 0.7: a hint made from the solution.
new_hint(indices, issue, hints, pick) ==
    [indices |-> indices,
     ret |-> Hint(Len(hints) + 1, generate_specific_hint(issue, pick))]

\* get_hint(issue) on the table `indices`, with the draws r of random.random()
\* and pick of random.choice: the table afterwards and the text returned.
get_hint(indices, issue, r, pick) ==
    LET issue_id == issue.id
        hints == Get(issue, "hints", List(<<>>)).v
    IN  IF hints = <<>> THEN no_hints(indices, issue, pick)
        ELSE LET inited == init_hint_index(indices, issue_id)
                 current_index == inited[issue_id]
             IN  IF current_index < Len(hints)
                 THEN next_hint(inited, issue_id, hints, current_index)
                 ELSE IF r < CYCLE_BACK
                 THEN cycle_back(inited, issue_id, hints)
                 ELSE new_hint(inited, issue, hints, pick)

\* Whether get_hint draws random.random() for this issue on this table.
Exhausted(indices, issue) ==
    LET hints == Get(issue, "hints", List(<<>>)).v
    IN  /\ hints # <<>>
        /\ Get(indices, issue.id, 0) >= Len(hints)

\* The draws one get_hint call can make: random.choice without hints,
\* random.random() and random.choice with all hints given, none otherwise.
NoDraw == [r |-> 0, pick |-> 1]
HintDraws(indices, issue) ==
    IF Get(issue, "hints", List(<<>>)).v = <<>> THEN {[r |-> 0, pick |-> p] : p \in Picks}
    ELSE IF Exhausted(indices, issue) THEN {[r |-> r, pick |-> p] : r \in RDraws, p \in Picks}
    ELSE {NoDraw}

----------------------------------------------------------------------------
(* solution_verifier.py                                                    *)

\* An exception leaving a function, and a value returned by it.
Raise(kind) == [raised |-> TRUE, error |-> kind]

DigitVal ==
    ("0" :> 0) @@ ("1" :> 1) @@ ("2" :> 2) @@ ("3" :> 3) @@ ("4" :> 4) @@
    ("5" :> 5) @@ ("6" :> 6) @@ ("7" :> 7) @@ ("8" :> 8) @@ ("9" :> 9)

\* The text int() reads once the surrounding whitespace and a sign are set aside.
IntDigits(s) ==
    LET t == strip(s)
    IN  IF t # <<>> /\ t[1] \in {"+", "-"} THEN Tail(t) ELSE t

\* Whether int(s) returns (it raises ValueError otherwise).
IsInt(s) ==
    /\ IntDigits(s) # <<>>
    /\ \A i \in 1..Len(IntDigits(s)) : IntDigits(s)[i] \in DOMAIN DigitVal

RECURSIVE Decimal(_)
Decimal(ds) ==
    IF ds = <<>> THEN 0
    ELSE 10 * Decimal(SubSeq(ds, 1, Len(ds) - 1)) + DigitVal[ds[Len(ds)]]

\* int(s), for a text with IsInt(s).
IntOf(s) ==
    IF strip(s)[1] = "-" THEN 0 - Decimal(IntDigits(s)) ELSE Decimal(IntDigits(s))

SUCCESS_HEAD == "Great job! You've successfully resolved the issue: "
SUCCESS_MID == "The solution was:"
SUCCESS_CATEGORY == "This is a common issue in "
SUCCESS_TAIL == " scenarios. Understanding how to troubleshoot and fix this type of problem is valuable for system administration and DevOps roles."

\* issue['title'], issue['solution'] and issue['category'] raise KeyError
\* when the key is missing.
generate_success_feedback(issue) ==
    IF {"title", "solution", "category"} \subseteq DOMAIN issue
    THEN [raised |-> FALSE,
          text |-> <<"\n", SUCCESS_HEAD>> \o issue.title \o <<"\n", "\n", SUCCESS_MID, "\n">>
                   \o issue.solution \o <<"\n", "\n", SUCCESS_CATEGORY>>
                   \o issue.category \o <<SUCCESS_TAIL, "\n">>]
    ELSE Raise("KeyError")

FAILURE_HEAD == "The issue hasn't been completely resolved yet. Keep trying!"
FAILURE_MID == "Verification output:"
FAILURE_TAIL == "Remember, you can ask for a hint if you're stuck."

generate_failure_feedback(issue, result) ==
    <<"\n", FAILURE_HEAD, "\n", "\n", FAILURE_MID, "\n">> \o result
    \o <<"\n", "\n", FAILURE_TAIL, "\n">>

\* exit_code_of reading the first line instead of the last.
exit_code_first(lines) ==
    IF lines # <<>> THEN lines[1] ELSE <<"1">>

\* `int(lines[-1]) if lines else 1`: the text handed to int(), "1" standing
\* for the default.
exit_code_of(lines) ==
    IF lines # <<>> THEN lines[Len(lines)] ELSE <<"1">>

\* result_of with the exit code left among the lines.
result_keep_all(lines) ==
    IF Len(lines) > 1 THEN join(<<"\n">>, lines) ELSE <<>>

\* `'\n'.join(lines[:-1]) if len(lines) > 1 else ""`
result_of(lines) ==
    IF Len(lines) > 1 THEN join(<<"\n">>, SubSeq(lines, 1, Len(lines) - 1)) ELSE <<>>

\* verify_solution(container_id, issue): docker_ok says whether the four
\* docker commands (mkdir, cp, chmod, bash) all exited 0, stdout is what the
\* last of them printed.
verify_solution(docker_ok, stdout, issue) ==
    IF "verification_script" \notin DOMAIN issue THEN Raise("KeyError")
    ELSE IF ~docker_ok THEN Raise("CalledProcessError")
    ELSE LET output == strip(stdout)
             lines == splitlines(output)
         IN  IF ~IsInt(exit_code_of(lines)) THEN Raise("ValueError")
             ELSE IF IntOf(exit_code_of(lines)) = 0
             THEN LET feedback == generate_success_feedback(issue)
                  IN  IF feedback.raised THEN feedback
                      ELSE [raised |-> FALSE, resolved |-> TRUE, feedback |-> feedback.text]
             ELSE [raised |-> FALSE, resolved |-> FALSE,
                   feedback |-> generate_failure_feedback(issue, result_of(lines))]

\* What `bash -c "bash /tmp/verification_script.sh; echo $?"` can print: what the
\* script printed, then the exit status and a newline.  The empty text is what
\* line 48 of the verifier provides for.
Alphabet == {"a", " ", "\n", "0", "1"}
ScriptOuts == UNION {[1..n -> Alphabet] : n \in 0..MaxScriptOut}
ExitStatuses == {<<"0">>, <<"1">>, <<"1", "2", "7">>}
StdOuts == {<<>>} \cup {out \o status \o <<"\n">> : out \in ScriptOuts, status \in ExitStatuses}

VerifyIssues == {IssueTwoHints, IssueThreeHints, WithoutKey(IssueOneHint, "category")}

----------------------------------------------------------------------------
(* issue_generator.py                                                      *)

\* required_fields without its last entry.
required_fields_short ==
    <<"title", "description", "setup_script", "verification_script", "hints">>

required_fields ==
    <<"title", "description", "setup_script", "verification_script", "hints", "solution">>

\* The characters of a text field, the items of `hints`.
Items(issue, field) == IF field = "hints" THEN issue[field].v ELSE issue[field]

\* `field not in issue or not issue[field]`
MissingOrEmpty(issue, field) ==
    field \notin DOMAIN issue \/ Items(issue, field) = <<>>

\* validate_issue(issue); the warnings about background processes print and
\* change nothing.
validate_issue(issue) ==
    IF \E i \in 1..Len(required_fields) : MissingOrEmpty(issue, required_fields[i])
    THEN FALSE
    ELSE IF Len(issue["description"]) < MIN_DESCRIPTION THEN FALSE
    ELSE IF Len(issue["setup_script"]) < MIN_SCRIPT
            \/ Len(issue["verification_script"]) < MIN_SCRIPT THEN FALSE
    ELSE IF issue["hints"].type # "list" \/ Len(issue["hints"].v) < MIN_HINTS THEN FALSE
    ELSE TRUE

\* The values a returned record can hold in each field: empty, one short of
\* the least length, the least length; `hints` also a text in place of a list.
FieldOptions ==
    [id |-> << <<>>, <<"a">> >>,
     title |-> << <<>>, <<"T">> >>,
     description |-> << <<>>, Rep("d", MIN_DESCRIPTION - 1), Rep("d", MIN_DESCRIPTION) >>,
     category |-> << <<"networking">> >>,
     difficulty |-> << <<"medium">> >>,
     setup_script |-> << <<>>, Rep("s", MIN_SCRIPT - 1), Rep("s", MIN_SCRIPT) >>,
     verification_script |-> << <<>>, Rep("v", MIN_SCRIPT - 1), Rep("v", MIN_SCRIPT) >>,
     hints |-> << List(<<>>), List(Rep(H1, MIN_HINTS - 1)), List(Rep(H1, MIN_HINTS)),
                  List(Rep(H1, MIN_HINTS + 1)), Text(Rep("h", MIN_HINTS)) >>,
     solution |-> << <<>>, SolutionShort >>,
     base_image |-> << <<"ubuntu:20.04">> >>]

\* The field with its n-th value, or no field when n = 0.
Field(name, n) == IF n = 0 THEN <<>> ELSE name :> FieldOptions[name][n]
Options(name) == 0..Len(FieldOptions[name])

\* str(uuid.uuid4()): a text no earlier call returned, n counting the calls.
NumChar == <<"0", "1", "2", "3", "4", "5", "6", "7", "8", "9">>
uuid4(n) == <<"u", "u", "i", "d", NumChar[n + 1]>>

\* generate_issue_with_llm: the chat completion fails or its content is not
\* JSON (llm_ok false), or it is the record `content`, which is given an id
\* when it has none.
\* ensure_id that also gives a record without a solution one.
ensure_id_and_solution(content, n) ==
    [k \in DOMAIN content \cup {"id", "solution"} |->
        IF k = "id" /\ ("id" \notin DOMAIN content \/ content["id"] = <<>>) THEN uuid4(n)
        ELSE IF k = "solution" /\ "solution" \notin DOMAIN content THEN SolutionShort
        ELSE content[k]]

\* `if "id" not in issue or not issue["id"]: issue["id"] = str(uuid.uuid4())`
ensure_id(content, n) ==
    IF "id" \notin DOMAIN content \/ content["id"] = <<>>
    THEN [k \in DOMAIN content \cup {"id"} |-> IF k = "id" THEN uuid4(n) ELSE content[k]]
    ELSE content

generate_issue_with_llm(llm_ok, content, n) ==
    IF ~llm_ok THEN Raise("ValueError")
    ELSE [raised |-> FALSE, issue |-> ensure_id(content, n)]

\* generate_issue(difficulty, ...): api_key says whether OPENAI_API_KEY is set.
generate_issue(api_key, llm_ok, content, n) ==
    IF ~api_key THEN Raise("ValueError")
    ELSE LET generated == generate_issue_with_llm(llm_ok, content, n)
         IN  IF generated.raised THEN generated
             ELSE IF validate_issue(generated.issue) THEN generated
             ELSE Raise("ValueError")

\* Records the chat completion returns: valid ones whose ids differ, differ
\* only in case, or are missing, and one with a single hint.
LlmRecords ==
    {IssueTwoHints,
     BaseIssue(<<"A">>, <<H1, H2, H3>>, <<"permissions">>, SolutionShort),
     WithoutKey(BaseIssue(<<"x">>, <<H2, H1>>, <<"file_system">>, SolutionLong), "id"),
     IssueOneHint}

----------------------------------------------------------------------------
(* container_manager.py                                                    *)

UpperToLower ==
    ("A" :> "a") @@ ("B" :> "b") @@ ("C" :> "c") @@ ("D" :> "d") @@ ("E" :> "e") @@
    ("F" :> "f") @@ ("G" :> "g") @@ ("H" :> "h") @@ ("I" :> "i") @@ ("J" :> "j") @@
    ("K" :> "k") @@ ("L" :> "l") @@ ("M" :> "m") @@ ("N" :> "n") @@ ("O" :> "o") @@
    ("P" :> "p") @@ ("Q" :> "q") @@ ("R" :> "r") @@ ("S" :> "s") @@ ("T" :> "t") @@
    ("U" :> "u") @@ ("V" :> "v") @@ ("W" :> "w") @@ ("X" :> "x") @@ ("Y" :> "y") @@
    ("Z" :> "z")

\* str.lower()
lower(s) == [i \in 1..Len(s) |-> IF s[i] \in DOMAIN UpperToLower THEN UpperToLower[s[i]] ELSE s[i]]

\* container_name without .lower(): the id as the issue carries it.
container_name_cased(issue) == <<"linux-issue-">> \o issue["id"]

\* f"linux-issue-{issue['id'].lower()}"
container_name(issue) == <<"linux-issue-">> \o lower(issue["id"])

\* Whether the daemon holds a container of this name, running or not:
\* `docker run --name` fails when it does.
NameInUse(conts, name) == \E c \in DOMAIN conts : conts[c].name = name

\* sys.exit(1): SystemExit, which `except Exception` does not catch.
SystemExit == [raised |-> TRUE, error |-> "SystemExit"]

\* `except subprocess.CalledProcessError`: the message is printed and
\* sys.exit(1) is called.
provision_failed == SystemExit

\* create_container(issue) on the daemon's containers `conts`: files_ok says
\* whether the temporary directory, setup.sh and the Dockerfile were written
\* and the docker program was found, build_ok and run_ok whether docker build
\* and docker run exited 0 for a reason other than the container's name; n is
\* the id the daemon gives the container.
create_container(conts, issue, files_ok, build_ok, run_ok, n) ==
    IF "setup_script" \notin DOMAIN issue \/ "id" \notin DOMAIN issue
    THEN [ret |-> Raise("KeyError"), containers |-> conts]
    ELSE IF ~files_ok THEN [ret |-> Raise("OSError"), containers |-> conts]
    ELSE IF ~build_ok THEN [ret |-> provision_failed, containers |-> conts]
    ELSE IF ~run_ok \/ NameInUse(conts, container_name(issue))
    THEN [ret |-> provision_failed, containers |-> conts]
    ELSE [ret |-> [raised |-> FALSE, container_id |-> n],
          containers |-> conts @@ (n :> [name |-> container_name(issue), running |-> TRUE])]

\* `docker stop container_id`: it exits 0 when the daemon holds the container
\* and stops it (stop_ok), non-zero otherwise.
docker_stop(conts, container_id, stop_ok) ==
    IF container_id \in DOMAIN conts /\ stop_ok
    THEN [ok |-> TRUE, containers |-> [conts EXCEPT ![container_id].running = FALSE]]
    ELSE [ok |-> FALSE, containers |-> conts]

\* `docker rm container_id`: it exits 0 when the daemon holds the container,
\* stopped, and removes it (rm_ok), non-zero otherwise.
docker_rm(conts, container_id, rm_ok) ==
    IF container_id \in DOMAIN conts /\ rm_ok /\ ~conts[container_id].running
    THEN [ok |-> TRUE, containers |-> [c \in DOMAIN conts \ {container_id} |-> conts[c]]]
    ELSE [ok |-> FALSE, containers |-> conts]

\* after_stop as with check=True: a failed docker stop raises.
after_stop_checked(stopped, container_id, rm_ok) ==
    IF ~stopped.ok
    THEN [raised |-> TRUE, error |-> "CalledProcessError", steps |-> <<"stop">>,
          containers |-> stopped.containers]
    ELSE [raised |-> FALSE, steps |-> <<"stop", "rm">>,
          containers |-> docker_rm(stopped.containers, container_id, rm_ok).containers]

\* What follows `subprocess.run(["docker", "stop", container_id], check=False)`:
\* docker rm, whatever docker stop did.
after_stop(stopped, container_id, rm_ok) ==
    [raised |-> FALSE, steps |-> <<"stop", "rm">>,
     containers |-> docker_rm(stopped.containers, container_id, rm_ok).containers]

\* remove_container(container_id): docker stop, then docker rm, each with
\* check=False; the docker commands run and the containers afterwards.
remove_container(conts, container_id, stop_ok, rm_ok) ==
    after_stop(docker_stop(conts, container_id, stop_ok), container_id, rm_ok)

\* Whether `docker exec container_id ...` reaches a running container.
Running(conts, container_id) ==
    container_id \in DOMAIN conts /\ conts[container_id].running

\* exec_failed with the exception left to the caller.
exec_failed_raises(detail) == Raise("CalledProcessError")

\* `except subprocess.CalledProcessError as e: return f"Error: {e}"`
exec_failed(detail) == [raised |-> FALSE, ret |-> <<"Error: ", detail>>]

\* execute_command(container_id, command): started says whether the docker
\* program could be started at all, exit_ok whether `docker exec` exited 0,
\* stdout what it printed. `docker exec` exits non-zero when the container
\* is not running and when no command follows the container id.
execute_command(conts, container_id, command, started, exit_ok, stdout) ==
    IF ~started THEN Raise("FileNotFoundError")
    ELSE IF Running(conts, container_id) /\ split(command) # <<>> /\ exit_ok
    THEN [raised |-> FALSE, ret |-> stdout]
    ELSE exec_failed(<<"Command returned non-zero exit status.">>)

----------------------------------------------------------------------------
(* api.py                                                                  *)

\* jsonify(body), status: a response returned by a handler.
Response(status, body) == [escaped |-> FALSE, status |-> status, body |-> body]

\* An exception that leaves the handler: no response is returned.
Escaped(error) == [escaped |-> TRUE, error |-> error]

\* `except Exception as e` of a handler: SystemExit is a BaseException and is
\* not caught, every other exception becomes a 500 response.
except_Exception(error, body) ==
    IF error = "SystemExit" THEN Escaped(error) ELSE Response(500, body)

\* new_session with the container of a session already in the store.
new_session_reuse(sessions, session_id, issue, container_id) ==
    (session_id :> [issue |-> issue,
                    container_id |-> IF sessions = <<>> THEN container_id
                                     ELSE sessions[CHOOSE i \in DOMAIN sessions : TRUE].container_id])
    @@ sessions

\* `active_sessions[session_id] = {'issue': issue, 'container_id': container_id}`
new_session(sessions, session_id, issue, container_id) ==
    (session_id :> [issue |-> issue, container_id |-> container_id]) @@ sessions

\* generate_issue() with the store entry written before create_container is
\* called, under an environment id that is still missing (0, which the
\* daemon hands out to no container), and completed when it returns.
api_generate_issue_store_first(sessions, conts, request, api_key, llm_ok, content, files_ok, build_ok, run_ok, n) ==
    LET difficulty == Get(request, "difficulty", <<"medium">>)
        generated == generate_issue(api_key, llm_ok, content, n)
        made == create_container(conts, generated.issue, files_ok, build_ok, run_ok, n)
        failure(error, ss, cs) ==
            [response |-> except_Exception(error, [success |-> FALSE, error |-> error]),
             sessions |-> ss, containers |-> cs, raised |-> error]
    IN  IF ~request.json THEN failure("BadRequest", sessions, conts)
        ELSE IF generated.raised THEN failure(generated.error, sessions, conts)
        ELSE IF made.ret.raised
        THEN failure(made.ret.error, new_session(sessions, n, generated.issue, 0),
                     made.containers)
        ELSE [response |-> Response(200, [success |-> TRUE,
                                          id |-> n,
                                          title |-> generated.issue["title"],
                                          description |-> generated.issue["description"],
                                          difficulty |-> difficulty,
                                          containerId |-> made.ret.container_id]),
              sessions |-> new_session(sessions, n, generated.issue, made.ret.container_id),
              containers |-> made.containers,
              raised |-> "none"]

\* generate_issue(): the response, the sessions and the containers afterwards,
\* and the exception raised inside the handler ("none" when there was none).
api_generate_issue(sessions, conts, request, api_key, llm_ok, content, files_ok, build_ok, run_ok, n) ==
    LET difficulty == Get(request, "difficulty", <<"medium">>)
        generated == generate_issue(api_key, llm_ok, content, n)
        made == create_container(conts, generated.issue, files_ok, build_ok, run_ok, n)
        failure(error, cs) ==
            [response |-> except_Exception(error, [success |-> FALSE, error |-> error]),
             sessions |-> sessions, containers |-> cs, raised |-> error]
    IN  IF ~request.json THEN failure("BadRequest", conts)
        ELSE IF generated.raised THEN failure(generated.error, conts)
        ELSE IF made.ret.raised THEN failure(made.ret.error, made.containers)
        ELSE [response |-> Response(200, [success |-> TRUE,
                                          id |-> n,
                                          title |-> generated.issue["title"],
                                          description |-> generated.issue["description"],
                                          difficulty |-> difficulty,
                                          containerId |-> made.ret.container_id]),
              sessions |-> new_session(sessions, n, generated.issue, made.ret.container_id),
              containers |-> made.containers,
              raised |-> "none"]

\* `if not container_id or not command`
IncompleteCommand(request) ==
    "containerId" \notin DOMAIN request
    \/ "command" \notin DOMAIN request \/ request.command = <<>>

\* execute_command(): the response, whether container_manager.execute_command
\* was called, and what it did.
api_execute_command(conts, request, started, exit_ok, stdout) ==
    LET failure(error) ==
            except_Exception(error, [success |-> FALSE, error |-> error,
                                     output |-> <<"Error: ", error>>])
    IN  IF ~request.json
        THEN [response |-> failure("BadRequest"), executed |-> FALSE, raised |-> "BadRequest"]
        ELSE IF IncompleteCommand(request)
        THEN [response |-> Response(400, [success |-> FALSE,
                                          error |-> "Container ID and command are required"]),
              executed |-> FALSE, raised |-> "none"]
        ELSE LET output == execute_command(conts, request.containerId, request.command,
                                           started, exit_ok, stdout)
             IN  IF output.raised
                 THEN [response |-> failure(output.error), executed |-> TRUE,
                       raised |-> output.error, output |-> output]
                 ELSE [response |-> Response(200, [success |-> TRUE, output |-> output.ret]),
                       executed |-> TRUE, raised |-> "none", output |-> output]

\* `not session_id or session_id not in active_sessions`
InvalidSession(sessions, request) ==
    "sessionId" \notin DOMAIN request \/ request.sessionId \notin DOMAIN sessions

\* verify_solution(): the response, the exception raised inside the handler,
\* and whether solution_verifier.verify_solution was called.
api_verify_solution(sessions, conts, request, docker_ok, stdout) ==
    IF ~request.json
    THEN [response |-> Response(500, [success |-> FALSE, error |-> "BadRequest",
                                      message |-> <<"Error: ", "BadRequest">>]),
          raised |-> "BadRequest", ran |-> FALSE]
    ELSE IF InvalidSession(sessions, request)
    THEN [response |-> Response(400, [success |-> FALSE, error |-> "Invalid session ID"]),
          raised |-> "none", ran |-> FALSE]
    ELSE LET container_id == sessions[request.sessionId].container_id
             issue == sessions[request.sessionId].issue
             verified == verify_solution(docker_ok /\ Running(conts, container_id),
                                         stdout, issue)
         IN  IF verified.raised
             THEN [response |-> except_Exception(verified.error,
                                    [success |-> FALSE, error |-> verified.error,
                                     message |-> <<"Error: ", verified.error>>]),
                   raised |-> verified.error, ran |-> TRUE]
             ELSE [response |-> Response(200, [success |-> verified.resolved,
                                               message |-> verified.feedback]),
                   raised |-> "none", ran |-> TRUE]

\* invalid_session with every cursor set back to 0.
invalid_session_resets(indices) ==
    [response |-> Response(400, [success |-> FALSE, error |-> "Invalid session ID"]),
     indices |-> [k \in DOMAIN indices |-> 0], raised |-> "none"]

\* `return jsonify({'success': False, 'error': 'Invalid session ID'}), 400`
\* of get_hint(), before hint_provider is called.
invalid_session(indices) ==
    [response |-> Response(400, [success |-> FALSE, error |-> "Invalid session ID"]),
     indices |-> indices, raised |-> "none"]

\* get_hint()
api_get_hint(sessions, indices, request, r, pick) ==
    IF ~request.json
    THEN [response |-> Response(500, [success |-> FALSE, error |-> "BadRequest",
                                      hint |-> <<"Error: ", "BadRequest">>]),
          indices |-> indices, raised |-> "BadRequest"]
    ELSE IF InvalidSession(sessions, request) THEN invalid_session(indices)
    ELSE LET hinted == get_hint(indices, sessions[request.sessionId].issue, r, pick)
         IN  [response |-> Response(200, [success |-> TRUE, hint |-> hinted.ret]),
              indices |-> hinted.indices, raised |-> "none"]

\* The process after a handler ran: an exception that escaped the handler is
\* SystemExit, which ends the thread serving the request when the server runs
\* one thread per request and the process itself when it does not.
host_after(response, threaded) ==
    IF response.escaped /\ ~threaded THEN "down" ELSE "up"

\* The bodies of the requests: not JSON, or JSON with or without each key.
GenerateRequests ==
    {[json |-> FALSE], [json |-> TRUE], [json |-> TRUE, difficulty |-> <<"hard">>]}

Commands == {<<>>, <<" ">>, <<"l", "s", " ", "-", "l", "a">>}

\* What `docker exec` does: the docker program cannot be started, or it
\* exits non-zero, or it exits 0 having printed nothing or something.
ExecOutcomes ==
    {[started |-> FALSE, exit_ok |-> FALSE, stdout |-> <<>>],
     [started |-> TRUE, exit_ok |-> FALSE, stdout |-> <<>>],
     [started |-> TRUE, exit_ok |-> TRUE, stdout |-> <<>>],
     [started |-> TRUE, exit_ok |-> TRUE, stdout |-> <<"o", "k", "\n">>]}

\* The outcomes `docker exec` can have for a request: none matters when the
\* handler answers before it, and it cannot exit 0 without a running
\* container or without a command to run.
ExecDraws(conts, request) ==
    IF ~request.json \/ IncompleteCommand(request)
    THEN {o \in ExecOutcomes : o.started /\ ~o.exit_ok}
    ELSE IF Running(conts, request.containerId) /\ split(request.command) # <<>>
    THEN ExecOutcomes
    ELSE {o \in ExecOutcomes : ~o.exit_ok}

\* What the steps of one issue request do: all succeed, or one of them fails
\* (those after it do not run).
StepNames == {"api_key", "llm_ok", "files_ok", "build_ok", "run_ok"}
StepOutcomes == {o \in [StepNames -> BOOLEAN] : Cardinality({k \in StepNames : ~o[k]}) <= 1}

\* The steps and the completion of one issue request that differ in what
\* they do: the completion matters only when it is reached, and the files
\* and docker steps only when it is valid.
IssueDraws ==
    {d \in [o : StepOutcomes, content : LlmRecords] :
        /\ (~d.o.api_key \/ ~d.o.llm_ok) => d.content = IssueTwoHints
        /\ (d.o.api_key /\ d.o.llm_ok /\ generate_issue(TRUE, TRUE, d.content, 0).raised)
           => (d.o.files_ok /\ d.o.build_ok /\ d.o.run_ok)}

\* Nothing of it matters when the body of the request is not JSON.
GenerateDraws(request) ==
    IF request.json THEN IssueDraws
    ELSE {d \in IssueDraws : d.content = IssueTwoHints /\ \A k \in StepNames : d.o[k]}

\* Ids of containers and sessions: those handed out and one that never is.
KnownIds == 1..(MaxIssues + 1)

ExecuteRequests ==
    {[json |-> FALSE], [json |-> TRUE], [json |-> TRUE, containerId |-> 1],
     [json |-> TRUE, command |-> <<"l", "s">>]}
    \cup {[json |-> TRUE, containerId |-> c, command |-> cmd] : c \in KnownIds, cmd \in Commands}

SessionRequests ==
    {[json |-> FALSE], [json |-> TRUE]} \cup {[json |-> TRUE, sessionId |-> i] : i \in KnownIds}

\* Outputs of the verification command seen through the API: resolved, not
\* resolved, and a last line that is no integer.
ApiStdOuts ==
    {<<"0", "\n">>, <<"a", "\n", "1", "\n">>, <<"a", "1", "\n">>}

\* What the docker commands of one verification do: one of them fails, or
\* all succeed and the last prints an output.
VerifyOutcomes ==
    {[docker_ok |-> FALSE, stdout |-> <<>>]}
    \cup {[docker_ok |-> TRUE, stdout |-> out] : out \in ApiStdOuts}

\* The outcomes a verification can have for a request: none matters when
\* the handler answers before it, and its docker commands cannot succeed
\* without a running container.
VerifyDraws(sessions, conts, request) ==
    IF ~request.json \/ InvalidSession(sessions, request)
    THEN {o \in VerifyOutcomes : ~o.docker_ok}
    ELSE IF Running(conts, sessions[request.sessionId].container_id)
    THEN VerifyOutcomes
    ELSE {o \in VerifyOutcomes : ~o.docker_ok}

----------------------------------------------------------------------------
(* main.py                                                                 *)

\* The process ended: by sys.exit(1), by an exception nothing catches
\* (status 1 as well), or by start() returning (status 0).
Exited(status) == [pc |-> "exited", status |-> status]

\* The loop waiting at Prompt.ask, and at Confirm.ask after a success.
AtPrompt(issue, container_id) ==
    [pc |-> "prompt", issue |-> issue, container_id |-> container_id]
AtConfirm(issue, container_id) ==
    [pc |-> "confirm", issue |-> issue, container_id |-> container_id]

\* generate_issue within try/except Exception, which ends in sys.exit(1), then
\* create_container outside any handler that catches what it raises: the
\* position reached, the containers afterwards, and what create_container
\* did (nothing raised when it was not called).
new_challenge(conts, llm_ok, content, files_ok, build_ok, run_ok, n) ==
    LET generated == generate_issue(TRUE, llm_ok, content, n)
        made == create_container(conts, generated.issue, files_ok, build_ok, run_ok, n)
    IN  IF generated.raised
        THEN [cli |-> Exited(1), containers |-> conts, provision |-> [raised |-> FALSE]]
        ELSE IF made.ret.raised
        THEN [cli |-> Exited(1), containers |-> made.containers, provision |-> made.ret]
        ELSE [cli |-> AtPrompt(generated.issue, made.ret.container_id),
              containers |-> made.containers, provision |-> made.ret]

\* start() up to the first prompt: requirements_ok is check_requirements(),
\* docker_info_ok whether `docker info` exited 0 in check_docker().
start(conts, requirements_ok, docker_info_ok, llm_ok, content, files_ok, build_ok, run_ok, n) ==
    IF ~requirements_ok \/ ~docker_info_ok
    THEN [cli |-> Exited(1), containers |-> conts, provision |-> [raised |-> FALSE]]
    ELSE new_challenge(conts, llm_ok, content, files_ok, build_ok, run_ok, n)

\* What the first steps of start() do: both succeed, or one fails.
StartOutcomes ==
    {[requirements_ok |-> TRUE, docker_info_ok |-> TRUE],
     [requirements_ok |-> FALSE, docker_info_ok |-> TRUE],
     [requirements_ok |-> TRUE, docker_info_ok |-> FALSE]}

\* The steps of new_challenge: the API key was checked when start() began.
CliDraws == {d \in IssueDraws : d.o.api_key}

----------------------------------------------------------------------------
(* The state after the modules are imported.                               *)

NoCall == [op |-> "none"]
CliOff == [pc |-> "off"]

InitState ==
    /\ hint_indices = <<>>
    /\ active_sessions = <<>>
    /\ containers = <<>>
    /\ next_id = 1
    /\ host = "up"
    /\ cli = CliOff
    /\ call = NoCall
    /\ log = <<>>
    /\ threads = <<>>
    /\ docker_cmds = <<>>

----------------------------------------------------------------------------
(* SpecHint: get_hint called directly, with any issue, any number of times *)
(* up to MaxCalls.                                                         *)

HintRecord(issue, r, res) ==
    [op |-> "get_hint",
     issue |-> issue,
     r |-> IF Exhausted(hint_indices, issue) THEN r ELSE -1,
     before |-> hint_indices,
     ret |-> res.ret]

GetHintCall ==
    /\ Len(log) < MaxCalls
    /\ \E issue \in HintIssues : \E draw \in HintDraws(hint_indices, issue) :
        LET res == get_hint(hint_indices, issue, draw.r, draw.pick)
        IN  /\ hint_indices' = res.indices
            /\ call' = HintRecord(issue, draw.r, res)
            /\ log' = Append(log, HintRecord(issue, draw.r, res))
            /\ UNCHANGED <<active_sessions, containers, next_id, host, cli, threads, docker_cmds>>

NextHint == GetHintCall

SpecHint == InitState /\ [][NextHint]_vars

\* The authored hints of an issue, and the index stored for an id (0 when none).
HintsOf(issue) == Get(issue, "hints", List(<<>>)).v
Cursor(indices, id) == Get(indices, id, 0)

\* The table after the k-th call of log.
TableAfter(k) == IF k < Len(log) THEN log[k + 1].before ELSE hint_indices

\* C1: from a table with no index for the issue's id, the first n consecutive
\* get_hint calls for an issue with n >= 1 hints return hints[0], ...,
\* hints[n-1] in that order, the k-th labeled "Hint k", and after the k-th the
\* index stored for the id is k.
C1_FirstCallsInOrder ==
    \A p \in 1..Len(log) : \A k \in 1..Len(HintsOf(log[p].issue)) :
        LET issue == log[p].issue
            last == p + k - 1
        IN  (/\ issue.id \notin DOMAIN log[p].before
             /\ last <= Len(log)
             /\ \A j \in p..last : log[j].issue = issue)
            => /\ log[last].ret = Hint(k, HintsOf(issue)[k])
               /\ issue.id \in DOMAIN TableAfter(last)
               /\ TableAfter(last)[issue.id] = k

C1_Witness ==
    /\ Len(log) = 3
    /\ \A j \in 1..3 : log[j].issue = IssueThreeHints
    /\ hint_indices[IssueThreeHints.id] = 3

\* C2: a call with non-empty hints, index >= len(hints) and r < 0.7 returns
\* hints[0] labeled "Hint 1" and leaves the index of the id at 0.
C2_CycleBack ==
    (/\ call.op = "get_hint"
     /\ Exhausted(call.before, call.issue)
     /\ call.r < CYCLE_BACK)
    => /\ call.ret = Hint(1, HintsOf(call.issue)[1])
       /\ call.issue.id \in DOMAIN hint_indices
       /\ hint_indices[call.issue.id] = 0

C2_Witness ==
    /\ call.op = "get_hint"
    /\ call.issue = IssueTwoHints
    /\ Cursor(call.before, call.issue.id) = 2
    /\ call.r = 69
    /\ hint_indices[call.issue.id] = 0

\* C3: a call with non-empty hints, index >= len(hints) and r >= 0.7 returns
\* a hint made from the solution, labeled "Hint len(hints)+1", and leaves the
\* index of the id as it was.
C3_NewHintKeepsIndex ==
    (/\ call.op = "get_hint"
     /\ Exhausted(call.before, call.issue)
     /\ call.r >= CYCLE_BACK)
    => /\ call.ret.label = Len(HintsOf(call.issue)) + 1
       /\ \E pick \in Picks : call.ret.text = generate_specific_hint(call.issue, pick)
       /\ hint_indices = call.before

C3_Witness ==
    /\ call.op = "get_hint"
    /\ call.issue = IssueTwoHints
    /\ call.r = 70
    /\ call.ret.label = 3
    /\ hint_indices[call.issue.id] = 2

\* C4: a call for an issue whose hints are empty returns a text labeled
\* "Hint 1" and leaves the whole table as it was: no index is created for the
\* id and an existing one is not changed.
C4_NoHintsKeepsTable ==
    (call.op = "get_hint" /\ HintsOf(call.issue) = <<>>)
    => /\ call.ret.label = 1
       /\ hint_indices = call.before

C4_Witness ==
    /\ call.op = "get_hint"
    /\ HintsOf(call.issue) = <<>>
    /\ call.issue.id \notin DOMAIN hint_indices
    /\ \E j \in 1..Len(log) : log[j].issue = IssueThreeHints

\* C5: from one step to the next the index stored for an id stays stored and
\* never decreases, except in a get_hint call for that id that finds all
\* hints given (index >= len(hints)) and draws r < 0.7, which sets it to 0.
C5_CursorMonotone ==
    [][\A id \in DOMAIN hint_indices :
          /\ id \in DOMAIN hint_indices'
          /\ \/ hint_indices'[id] >= hint_indices[id]
             \/ /\ call'.op = "get_hint"
                /\ call'.issue.id = id
                /\ Exhausted(hint_indices, call'.issue)
                /\ call'.r < CYCLE_BACK
                /\ hint_indices'[id] = 0]_vars

C5_Witness ==
    /\ Len(log) = 4
    /\ log[4].r \in {0, 69}
    /\ log[4].before[log[4].issue.id] = 3
    /\ hint_indices[log[4].issue.id] = 0
    /\ log[3].before[log[3].issue.id] = 2

\* The last call of log made for an issue id (0 when there was none).
LastCallFor(id) ==
    IF \E j \in 1..Len(log) : log[j].issue.id = id
    THEN CHOOSE j \in 1..Len(log) :
            /\ log[j].issue.id = id
            /\ \A k \in (j + 1)..Len(log) : log[k].issue.id # id
    ELSE 0

\* C22: after any sequence of get_hint calls, the index stored for an issue
\* id is an integer c with 0 <= c <= len(hints) of the issue passed in the
\* most recent call for that id, also when issues with the same id and hint
\* lists of different lengths were passed.
C22_CursorWithinLatestHints ==
    \A id \in DOMAIN hint_indices :
        /\ hint_indices[id] \in Nat
        /\ LastCallFor(id) # 0
        /\ hint_indices[id] <= Len(HintsOf(log[LastCallFor(id)].issue))

----------------------------------------------------------------------------
(* SpecVerify: verify_solution called directly on any output of the        *)
(* verification command.  The function reads and writes no state of the    *)
(* process, so one call from the initial state covers every call.          *)

VerifyCall ==
    /\ call = NoCall
    /\ \E docker_ok \in BOOLEAN, stdout \in StdOuts, issue \in VerifyIssues :
        /\ call' = [op |-> "verify_solution",
                    issue |-> issue,
                    docker_ok |-> docker_ok,
                    stdout |-> IF docker_ok THEN stdout ELSE <<>>,
                    ret |-> verify_solution(docker_ok, stdout, issue)]
        /\ UNCHANGED <<hint_indices, active_sessions, containers, next_id, host, cli, log, threads, docker_cmds>>

NextVerify == VerifyCall

SpecVerify == InitState /\ [][NextVerify]_vars

\* The text without one final newline; the text after its last newline (all of
\* it when it has none); the text before its last newline (none when it has none).
DropFinalNewline(text) ==
    IF text # <<>> /\ text[Len(text)] = "\n" THEN SubSeq(text, 1, Len(text) - 1) ELSE text
NewlinesOf(text) == {i \in 1..Len(text) : text[i] = "\n"}
LastNewline(text) == CHOOSE i \in NewlinesOf(text) : \A j \in NewlinesOf(text) : j <= i
LastLine(text) ==
    IF NewlinesOf(text) = {} THEN text ELSE SubSeq(text, LastNewline(text) + 1, Len(text))
BeforeLastLine(text) ==
    IF NewlinesOf(text) = {} THEN <<>> ELSE SubSeq(text, 1, LastNewline(text) - 1)

\* The text embedded in a failure feedback, between its fixed parts.
EmbeddedText(feedback) == SubSeq(feedback, 7, Len(feedback) - 4)

\* Whether the last line of the captured output parses to the integer 0.
LastLineIsZero(stdout) ==
    /\ stdout # <<>>
    /\ IsInt(LastLine(DropFinalNewline(stdout)))
    /\ IntOf(LastLine(DropFinalNewline(stdout))) = 0

C7_DiagnosticVerbatim ==
    (/\ call.op = "verify_solution"
     /\ ~call.ret.raised
     /\ ~call.ret.resolved)
    => call.ret.feedback
       = generate_failure_feedback(call.issue, BeforeLastLine(DropFinalNewline(call.stdout)))

\* C7, amended: on resolved = false the text embedded in the feedback is the
\* captured output, with the whitespace at its start and at its end trimmed,
\* up to and without its last newline; it is empty when the trimmed output is
\* a single line.
C7_DiagnosticOfTrimmedOutput ==
    (/\ call.op = "verify_solution"
     /\ ~call.ret.raised
     /\ ~call.ret.resolved)
    => /\ EmbeddedText(call.ret.feedback) = BeforeLastLine(strip(call.stdout))
       /\ call.ret.feedback
          = <<"\n", FAILURE_HEAD, "\n", "\n", FAILURE_MID, "\n">>
            \o BeforeLastLine(strip(call.stdout))
            \o <<"\n", "\n", FAILURE_TAIL, "\n">>

C7_Witness ==
    /\ call.op = "verify_solution"
    /\ call.stdout = <<" ", "a", "\n", "1", "\n">>
    /\ ~call.ret.raised
    /\ ~call.ret.resolved
    /\ EmbeddedText(call.ret.feedback) = <<"a">>

----------------------------------------------------------------------------
(* SpecValidate: validate_issue called directly on any record.  The        *)
(* function reads and writes no state of the process, so one call from the *)
(* initial state covers every call.                                        *)

ValidateCall ==
    /\ call = NoCall
    /\ \E i \in Options("id"), t \in Options("title"), d \in Options("description"),
       c \in Options("category"), l \in Options("difficulty"),
       s \in Options("setup_script"), v \in Options("verification_script"),
       h \in Options("hints"), a \in Options("solution"), b \in Options("base_image") :
        LET issue == Field("id", i) @@ Field("title", t) @@ Field("description", d)
                     @@ Field("category", c) @@ Field("difficulty", l)
                     @@ Field("setup_script", s) @@ Field("verification_script", v)
                     @@ Field("hints", h) @@ Field("solution", a) @@ Field("base_image", b)
        IN  /\ call' = [op |-> "validate_issue", issue |-> issue, ret |-> validate_issue(issue)]
            /\ UNCHANGED <<hint_indices, active_sessions, containers, next_id, host, cli, log, threads, docker_cmds>>

NextValidate == ValidateCall

SpecValidate == InitState /\ [][NextValidate]_vars

\* The fields of the data model, and those the claim's lengths are about.
IssueFields ==
    {"id", "title", "description", "category", "difficulty", "setup_script",
     "verification_script", "hints", "solution", "base_image"}

PresentNonEmpty(issue, fields) ==
    \A f \in fields : f \in DOMAIN issue /\ Items(issue, f) # <<>>

LengthsAccepted(issue) ==
    /\ Len(issue["description"]) >= 50
    /\ Len(issue["setup_script"]) >= 20
    /\ Len(issue["verification_script"]) >= 20
    /\ issue["hints"].type = "list"
    /\ Len(issue["hints"].v) >= 2

\* C8 as claimed: a record is accepted exactly when all the fields of the data
\* model are present and non-empty and the lengths are reached.
C8_AcceptsIffAllFields ==
    call.op = "validate_issue"
    => (call.ret <=> (PresentNonEmpty(call.issue, IssueFields) /\ LengthsAccepted(call.issue)))

\* C8, amended: a record is accepted exactly when title, description,
\* setup_script, verification_script, hints and solution are present and
\* non-empty, len(description) >= 50, both scripts have len >= 20 and hints is
\* a list with len >= 2; id, category, difficulty and base_image are not looked at.
C8_AcceptsIffSixFields ==
    call.op = "validate_issue"
    => (call.ret <=>
            (/\ PresentNonEmpty(call.issue, {"title", "description", "setup_script",
                                             "verification_script", "hints", "solution"})
             /\ LengthsAccepted(call.issue)))

C8_Witness ==
    /\ call.op = "validate_issue"
    /\ call.ret
    /\ DOMAIN call.issue = {"title", "description", "setup_script",
                            "verification_script", "hints", "solution"}

----------------------------------------------------------------------------
(* Spec: the API process serving requests, one handler at a time.          *)

ApiGenerateIssue ==
    /\ host = "up"
    /\ next_id <= MaxIssues
    /\ \E request \in GenerateRequests :
       \E d \in GenerateDraws(request) :
        \E res \in {api_generate_issue(active_sessions, containers, request, d.o.api_key,
                                      d.o.llm_ok, d.content, d.o.files_ok, d.o.build_ok,
                                      d.o.run_ok, next_id)} :
            /\ active_sessions' = res.sessions
            /\ containers' = res.containers
            /\ next_id' = next_id + 1
            /\ host' \in {host_after(res.response, threaded) : threaded \in BOOLEAN}
            /\ call' = [op |-> "api.generate_issue", request |-> request,
                        response |-> res.response, raised |-> res.raised]
            /\ UNCHANGED <<hint_indices, cli, log, threads, docker_cmds>>

ApiExecuteCommand ==
    /\ host = "up"
    /\ \E request \in ExecuteRequests :
       \E o \in ExecDraws(containers, request) :
        \E res \in {api_execute_command(containers, request, o.started, o.exit_ok, o.stdout)} :
            /\ host' \in {host_after(res.response, threaded) : threaded \in BOOLEAN}
            /\ call' = [op |-> "api.execute_command", request |-> request,
                        outcome |-> o, res |-> res,
                        response |-> res.response, raised |-> res.raised,
                        executed |-> res.executed]
            /\ UNCHANGED <<hint_indices, active_sessions, containers, next_id, cli, log, threads, docker_cmds>>

ApiVerifySolution ==
    /\ host = "up"
    /\ \E request \in SessionRequests :
       \E o \in VerifyDraws(active_sessions, containers, request) :
        \E res \in {api_verify_solution(active_sessions, containers, request,
                                       o.docker_ok, o.stdout)} :
            /\ host' \in {host_after(res.response, threaded) : threaded \in BOOLEAN}
            /\ call' = [op |-> "api.verify_solution", request |-> request,
                        response |-> res.response, raised |-> res.raised,
                        ran |-> res.ran]
            /\ UNCHANGED <<hint_indices, active_sessions, containers, next_id, cli, log, threads, docker_cmds>>

ApiGetHint ==
    /\ host = "up"
    /\ \E request \in SessionRequests :
       \E draw \in IF request.json /\ ~InvalidSession(active_sessions, request)
                   THEN HintDraws(hint_indices, active_sessions[request.sessionId].issue)
                   ELSE {NoDraw} :
        \E res \in {api_get_hint(active_sessions, hint_indices, request, draw.r, draw.pick)} :
            /\ hint_indices' = res.indices
            /\ host' \in {host_after(res.response, threaded) : threaded \in BOOLEAN}
            /\ call' = [op |-> "api.get_hint", request |-> request,
                        response |-> res.response, raised |-> res.raised,
                        before |-> hint_indices]
            /\ UNCHANGED <<active_sessions, containers, next_id, cli, log, threads, docker_cmds>>

Next == ApiGenerateIssue \/ ApiExecuteCommand \/ ApiVerifySolution \/ ApiGetHint

Spec == InitState /\ [][Next]_vars

ApiOps == {"api.generate_issue", "api.execute_command", "api.verify_solution", "api.get_hint"}

\* C10: in each of the four handlers every failure of a collaborator is caught
\* in the handler and answered with a response whose body has success = false
\* and an error or a message; no failure leaves the handler or ends the process.
C10_FailuresAnswered ==
    call.op \in ApiOps
    => /\ ~call.response.escaped
       /\ host = "up"
       /\ call.raised # "none"
          => /\ call.response.body.success = FALSE
             /\ {"error", "message"} \cap DOMAIN call.response.body # {}

\* C11: a `docker exec` that exits non-zero does not make execute_command
\* raise: the text returned begins with "Error: "; one that exits 0 returns
\* what the command printed; so a command of at least one token whose
\* `docker exec` ran to an exit status always gets a text back.
C11_ExecuteReturnsText ==
    (call.op = "api.execute_command" /\ call.executed /\ call.outcome.started)
    => /\ ~call.res.output.raised
       /\ ~call.outcome.exit_ok
          => /\ Len(call.res.output.ret) >= 1
             /\ call.res.output.ret[1] = "Error: "
       /\ call.outcome.exit_ok => call.res.output.ret = call.outcome.stdout

\* A command of one token exited non-zero in a running container.
C11_Witness ==
    /\ call.op = "api.execute_command"
    /\ call.executed
    /\ call.outcome.started
    /\ ~call.outcome.exit_ok
    /\ Len(split(call.request.command)) >= 1
    /\ Running(containers, call.request.containerId)
    /\ call.res.output.ret[1] = "Error: "

\* The containers bound to the sessions of the store.
SessionContainers == {active_sessions[i].container_id : i \in DOMAIN active_sessions}

\* C12: a request to execute that names no environment of a session of the
\* store, or no command, is answered with success = false and an error
\* without execute_command being called; so a command only ever runs in the
\* environment of a session of the store.
C12_ExecuteOnlyInSession ==
    call.op = "api.execute_command"
    => /\ (~call.request.json
           \/ IncompleteCommand(call.request)
           \/ call.request.containerId \notin SessionContainers)
          => /\ ~call.executed
             /\ call.response.body.success = FALSE
             /\ "error" \in DOMAIN call.response.body
       /\ call.executed => call.request.containerId \in SessionContainers

\* C13: verify_solution() and get_hint() given a session id that is missing
\* or not in the store answer with a failure and change nothing: the
\* verifier is not called, and no hint cursor is created or advanced.
C13_InvalidSessionChangesNothing ==
    [][(/\ call'.op \in {"api.verify_solution", "api.get_hint"}
        /\ call'.request.json
        /\ InvalidSession(active_sessions, call'.request))
       => /\ call'.response.status = 400
          /\ call'.response.body.success = FALSE
          /\ "error" \in DOMAIN call'.response.body
          /\ call'.op = "api.verify_solution" => ~call'.ran
          /\ UNCHANGED <<hint_indices, active_sessions, containers>>]_vars

\* A hint was asked for under a session id the store does not hold, while
\* a session exists whose issue has a cursor past its first hint.
C13_Witness ==
    /\ call.op = "api.get_hint"
    /\ "sessionId" \in DOMAIN call.request
    /\ call.request.sessionId \notin DOMAIN active_sessions
    /\ call.response.status = 400
    /\ \E id \in DOMAIN hint_indices : hint_indices[id] > 0

\* C14: the sessions of the store have distinct session ids and distinct
\* environment ids: every successful generate_issue() answers with a session
\* id and a container id that no session of the store had, replaces no
\* session, and leaves the container ids of the store pairwise distinct.
C14_DistinctIds ==
    [][(/\ call'.op = "api.generate_issue"
        /\ ~call'.response.escaped
        /\ call'.response.body.success)
       => /\ call'.response.body.id \notin DOMAIN active_sessions
          /\ call'.response.body.containerId \notin SessionContainers
          /\ DOMAIN active_sessions' = DOMAIN active_sessions \cup {call'.response.body.id}
          /\ \A i \in DOMAIN active_sessions : active_sessions'[i] = active_sessions[i]
          /\ \A i, j \in DOMAIN active_sessions' :
                i # j => active_sessions'[i].container_id # active_sessions'[j].container_id]_vars

\* Two sessions made from two different issues are in the store.
C14_Witness ==
    /\ call.op = "api.generate_issue"
    /\ ~call.response.escaped
    /\ call.response.body.success
    /\ \E i, j \in DOMAIN active_sessions :
        /\ i # j
        /\ active_sessions[i].issue # active_sessions[j].issue

\* C21: every session of the store holds the id of a container that a
\* create_container call returned after docker run started it, made for the
\* session's issue (never a missing or pending id): a successful
\* generate_issue() adds one session whose container this request started,
\* and a generate_issue() that fails in the request body, in issue generation
\* or in provisioning leaves the store unchanged.
C21_SessionsHoldProvisioned ==
    [][call'.op = "api.generate_issue"
       => /\ \A i \in DOMAIN active_sessions' :
              /\ active_sessions'[i].container_id \in DOMAIN containers'
              /\ containers'[active_sessions'[i].container_id].name
                    = container_name(active_sessions'[i].issue)
          /\ IF call'.raised = "none"
             THEN /\ call'.response.body.containerId \in DOMAIN containers' \ DOMAIN containers
                  /\ active_sessions'[call'.response.body.id].container_id
                        = call'.response.body.containerId
                  /\ DOMAIN active_sessions'
                        = DOMAIN active_sessions \cup {call'.response.body.id}
             ELSE /\ active_sessions' = active_sessions
                  /\ (call'.response.escaped \/ call'.response.body.success = FALSE)]_vars

\* A session is in the store and a later generate_issue() failed in
\* provisioning: create_container ended in sys.exit(1).
C21_Witness ==
    /\ call.op = "api.generate_issue"
    /\ call.raised = "SystemExit"
    /\ active_sessions # <<>>

----------------------------------------------------------------------------
(* SpecCli: one run of main.start, from its launch to the end of the       *)
(* process, one action per stretch of code between two prompts.            *)

Launched == [pc |-> "launched"]

InitCli ==
    /\ hint_indices = <<>>
    /\ active_sessions = <<>>
    /\ containers = <<>>
    /\ next_id = 1
    /\ host = "up"
    /\ cli = Launched
    /\ call = NoCall
    /\ log = <<>>
    /\ threads = <<>>
    /\ docker_cmds = <<>>

\* The docker commands remove_container ran, as main.start's.
CliCmds(container_id, steps) ==
    [i \in 1..Len(steps) |->
        [thread |-> "main", container_id |-> container_id, cmd |-> steps[i]]]

HostOf(position) == IF position.pc = "exited" THEN "down" ELSE "up"

CliStart ==
    /\ cli.pc = "launched"
    /\ \E s \in StartOutcomes, d \in CliDraws :
        LET res == start(containers, s.requirements_ok, s.docker_info_ok, d.o.llm_ok,
                         d.content, d.o.files_ok, d.o.build_ok, d.o.run_ok, next_id)
        IN  /\ cli' = res.cli
            /\ containers' = res.containers
            /\ next_id' = next_id + 1
            /\ host' = HostOf(res.cli)
            /\ call' = [op |-> "cli.start", provision |-> res.provision]
            /\ UNCHANGED <<hint_indices, active_sessions, log, threads, docker_cmds>>

\* `action == "hint"`
CliHint ==
    /\ cli.pc = "prompt"
    /\ Len(log) < MaxCalls
    /\ \E draw \in HintDraws(hint_indices, cli.issue) :
       \E res \in {get_hint(hint_indices, cli.issue, draw.r, draw.pick)} :
        /\ hint_indices' = res.indices
        /\ call' = [op |-> "cli.hint", issue |-> cli.issue, ret |-> res.ret,
                    before |-> hint_indices]
        /\ log' = Append(log, [op |-> "cli.hint", session |-> cli.container_id,
                               issue |-> cli.issue, before |-> hint_indices,
                               after |-> res.indices, ret |-> res.ret])
        /\ UNCHANGED <<active_sessions, containers, next_id, host, cli, threads,
                       docker_cmds>>

\* `action == "verify"`: an exception of verify_solution is caught nowhere.
CliVerify ==
    /\ cli.pc = "prompt"
    /\ \E o \in VerifyOutcomes :
        LET res == verify_solution(o.docker_ok /\ Running(containers, cli.container_id),
                                   o.stdout, cli.issue)
        IN  /\ cli' = IF res.raised THEN Exited(1)
                      ELSE IF res.resolved THEN AtConfirm(cli.issue, cli.container_id)
                      ELSE cli
            /\ host' = IF res.raised THEN "down" ELSE "up"
            /\ call' = [op |-> "cli.verify", ret |-> res]
            /\ UNCHANGED <<hint_indices, active_sessions, containers, next_id, log, threads, docker_cmds>>

\* "Would you like to try another challenge?" answered yes.
CliAnother ==
    /\ cli.pc = "confirm"
    /\ next_id <= MaxIssues
    /\ \E stop_ok \in BOOLEAN, rm_ok \in BOOLEAN, d \in CliDraws :
        LET removed == remove_container(containers, cli.container_id, stop_ok, rm_ok)
            res == new_challenge(removed.containers, d.o.llm_ok, d.content, d.o.files_ok,
                                 d.o.build_ok, d.o.run_ok, next_id)
        IN  /\ cli' = res.cli
            /\ containers' = res.containers
            /\ next_id' = next_id + 1
            /\ host' = HostOf(res.cli)
            /\ call' = [op |-> "cli.another", provision |-> res.provision]
            /\ docker_cmds' = docker_cmds \o CliCmds(cli.container_id, removed.steps)
            /\ UNCHANGED <<hint_indices, active_sessions, log, threads>>

\* The loop left with the container removed: "quit" at the prompt, "no" at
\* the confirmation, or KeyboardInterrupt at either.
CliLeave ==
    /\ cli.pc \in {"prompt", "confirm"}
    /\ \E stop_ok \in BOOLEAN, rm_ok \in BOOLEAN, how \in {"leave", "KeyboardInterrupt"} :
       \E removed \in {remove_container(containers, cli.container_id, stop_ok, rm_ok)} :
        /\ containers' = removed.containers
        /\ cli' = Exited(0)
        /\ host' = "down"
        /\ call' = [op |-> "cli.leave", how |-> how, container_id |-> cli.container_id]
        /\ docker_cmds' = docker_cmds \o CliCmds(cli.container_id, removed.steps)
        /\ UNCHANGED <<hint_indices, active_sessions, next_id, log, threads>>

NextCli == CliStart \/ CliHint \/ CliVerify \/ CliAnother \/ CliLeave

SpecCli == InitCli /\ [][NextCli]_vars

\* Whether the last operation called create_container and docker build or
\* docker run failed in it.
ProvisionFailed ==
    /\ call.op \in {"cli.start", "cli.another"}
    /\ call.provision.raised
    /\ call.provision.error \in {"SystemExit", "CalledProcessError"}

\* C9: when docker build or docker run fails, create_container hands its
\* caller an error the caller can catch, and the process is still running
\* afterwards.
C9_ProvisionFailureRecoverable ==
    ProvisionFailed
    => /\ call.provision.error # "SystemExit"
       /\ host = "up"
       /\ cli.pc # "exited"

----------------------------------------------------------------------------
(* SpecContainers: container_manager called for several issues against one *)
(* docker daemon.                                                          *)

\* The issues generate_issue returns.
ProvisionIssues ==
    {generate_issue(TRUE, TRUE, content, 0).issue :
        content \in {c \in LlmRecords : ~generate_issue(TRUE, TRUE, c, 0).raised}}

\* The outcomes of the steps of create_container.
ProvisionOutcomes == {o \in StepOutcomes : o.api_key /\ o.llm_ok}

CmCreateContainer ==
    /\ next_id <= MaxIssues
    /\ \E issue \in ProvisionIssues, o \in ProvisionOutcomes :
       \E res \in {create_container(containers, issue, o.files_ok, o.build_ok, o.run_ok,
                                    next_id)} :
        /\ containers' = res.containers
        /\ next_id' = next_id + 1
        /\ call' = [op |-> "cm.create_container", issue |-> issue, o |-> o,
                    ret |-> res.ret, before |-> containers]
        /\ UNCHANGED <<hint_indices, active_sessions, host, cli, log, threads, docker_cmds>>

CmRemoveContainer ==
    \E container_id \in KnownIds, stop_ok \in BOOLEAN, rm_ok \in BOOLEAN :
    \E res \in {remove_container(containers, container_id, stop_ok, rm_ok)} :
        /\ containers' = res.containers
        /\ call' = [op |-> "cm.remove_container", container_id |-> container_id,
                    stop_ok |-> stop_ok, rm_ok |-> rm_ok, ret |-> res,
                    before |-> containers]
        /\ UNCHANGED <<hint_indices, active_sessions, next_id, host, cli, log, threads, docker_cmds>>

NextContainers == CmCreateContainer \/ CmRemoveContainer

SpecContainers == InitState /\ [][NextContainers]_vars

\* C15: remove_container does not raise: whether docker stop or docker rm
\* fails, also for a container the daemon does not hold, it returns, it has
\* run docker rm after docker stop, and every other container is as it was.
C15_RemoveNeverRaises ==
    call.op = "cm.remove_container"
    => /\ ~call.ret.raised
       /\ call.ret.steps = <<"stop", "rm">>
       /\ DOMAIN containers \subseteq DOMAIN call.before
       /\ \A c \in DOMAIN call.before \ {call.container_id} :
            c \in DOMAIN containers /\ containers[c] = call.before[c]

\* remove_container was called with an id handed out earlier that the daemon
\* no longer holds, while it held another container: docker stop failed and
\* docker rm was run all the same.
C15_Witness ==
    /\ call.op = "cm.remove_container"
    /\ call.container_id < next_id
    /\ call.container_id \notin DOMAIN call.before
    /\ call.before # <<>>
    /\ call.ret.steps = <<"stop", "rm">>
    /\ containers = call.before

\* The containers the daemon holds, running or stopped, that were made for
\* an issue with this id up to the case of its letters.
EnvironmentsOf(conts, id) ==
    {c \in DOMAIN conts : conts[c].name = <<"linux-issue-">> \o lower(id)}

\* C23: the daemon holds at most one container, running or stopped, per
\* lowercased issue id: create_container for an issue whose lowercased id is
\* that of a container made earlier and not removed starts no second
\* container and raises; when its files were written and docker build
\* succeeded it fails at docker run, on the container name, and ends in the
\* sys.exit(1) of a failed provisioning.
C23_OneEnvironmentPerId ==
    /\ \A issue \in ProvisionIssues :
            Cardinality(EnvironmentsOf(containers, issue["id"])) <= 1
    /\ (/\ call.op = "cm.create_container"
        /\ EnvironmentsOf(call.before, call.issue["id"]) # {})
       => /\ call.ret.raised
          /\ containers = call.before
          /\ (call.o.files_ok /\ call.o.build_ok) => call.ret = provision_failed

\* create_container was called for the issue with id "A" while the daemon
\* held the container made for the issue with id "a", and every step but
\* the naming of the container could succeed.
C23_Witness ==
    /\ call.op = "cm.create_container"
    /\ call.issue["id"] = <<"A">>
    /\ \E c \in DOMAIN call.before : call.before[c].name = <<"linux-issue-", "a">>
    /\ call.o.files_ok /\ call.o.build_ok /\ call.o.run_ok
    /\ call.ret = provision_failed
    /\ containers = call.before

----------------------------------------------------------------------------
(* SpecThreads: the API under app.run, which serves every request in a     *)
(* thread of its own.  A request thread can be suspended between any two   *)
(* statements, so get_hint is two steps (the index read into current_index,*)
(* then the index written) and verify_solution one step per docker         *)
(* command; no handler takes a lock.                                       *)

Threads == 1..MaxThreads

\* The docker commands of verify_solution, in order.
VerifyCmds == <<"mkdir", "cp", "chmod", "run">>

Done(t) == t \in DOMAIN threads /\ threads[t].pc = "done"

\* The next request is accepted and given a thread.
NewThread == Cardinality(DOMAIN threads) + 1

\* get_hint(): the session is looked up and hint_provider.get_hint(issue) is
\* entered.
ThreadGetHint ==
    /\ host = "up"
    /\ NewThread \in Threads
    /\ \E session_id \in DOMAIN active_sessions :
        /\ threads' = threads @@
              (NewThread :> [pc |-> "get_hint", op |-> "get_hint",
                             issue |-> active_sessions[session_id].issue,
                             began_at |-> Get(hint_indices,
                                              active_sessions[session_id].issue.id, 0),
                             running |-> {u \in DOMAIN threads : ~Done(u)}])
        /\ UNCHANGED <<hint_indices, active_sessions, containers, next_id, host, cli, call,
                       log, docker_cmds>>

\* hint_provider.get_hint up to `current_index = hint_indices[issue_id]`.
ThreadHintRead ==
    \E t \in DOMAIN threads :
        /\ threads[t].pc = "get_hint"
        /\ LET issue == threads[t].issue
               hints == Get(issue, "hints", List(<<>>)).v
           IN  IF hints = <<>>
               THEN \E pick \in Picks :
                    \E res \in {no_hints(hint_indices, issue, pick)} :
                        /\ hint_indices' = res.indices
                        /\ threads' = [threads EXCEPT ![t] =
                              [pc |-> "done", op |-> "get_hint", issue |-> issue,
                               began_at |-> threads[t].began_at,
                               running |-> threads[t].running, ret |-> res.ret]]
               ELSE /\ hint_indices' = init_hint_index(hint_indices, issue.id)
                    /\ threads' = [threads EXCEPT ![t] =
                          [pc |-> "hint_read", op |-> "get_hint", issue |-> issue,
                           began_at |-> threads[t].began_at,
                           running |-> threads[t].running,
                           current_index |-> hint_indices'[issue.id]]]
        /\ UNCHANGED <<active_sessions, containers, next_id, host, cli, call, log,
                       docker_cmds>>

\* hint_provider.get_hint from `if current_index < len(hints)` to its return.
ThreadHintReturn ==
    \E t \in DOMAIN threads :
        /\ threads[t].pc = "hint_read"
        /\ LET issue == threads[t].issue
               hints == issue.hints.v
               current_index == threads[t].current_index
           IN  \E draw \in IF current_index < Len(hints) THEN {NoDraw}
                           ELSE {[r |-> r, pick |-> 1] : r \in {0, CYCLE_BACK}} :
               \E res \in {IF current_index < Len(hints)
                           THEN next_hint(hint_indices, issue.id, hints, current_index)
                           ELSE IF draw.r < CYCLE_BACK
                           THEN cycle_back(hint_indices, issue.id, hints)
                           ELSE new_hint(hint_indices, issue, hints, draw.pick)} :
                    /\ hint_indices' = res.indices
                    /\ threads' = [threads EXCEPT ![t] =
                          [pc |-> "done", op |-> "get_hint", issue |-> issue,
                           began_at |-> threads[t].began_at,
                           running |-> threads[t].running, ret |-> res.ret]]
        /\ UNCHANGED <<active_sessions, containers, next_id, host, cli, call, log,
                       docker_cmds>>

\* verify_solution(): the session is looked up and
\* solution_verifier.verify_solution(container_id, issue) is entered.
ThreadVerifySolution ==
    /\ host = "up"
    /\ NewThread \in Threads
    /\ \E session_id \in DOMAIN active_sessions :
        /\ threads' = threads @@
              (NewThread :> [pc |-> "verify_solution", op |-> "verify_solution",
                             issue |-> active_sessions[session_id].issue,
                             container_id |-> active_sessions[session_id].container_id,
                             step |-> 1])
        /\ UNCHANGED <<hint_indices, active_sessions, containers, next_id, host, cli, call,
                       log, docker_cmds>>

\* One docker command of verify_solution: it fails, which ends the call with
\* CalledProcessError, or it succeeds; the last one prints the output the
\* result is read from.
ThreadVerifyStep ==
    \E t \in DOMAIN threads :
        /\ threads[t].pc = "verify_solution"
        /\ docker_cmds' = Append(docker_cmds, [thread |-> t,
                                               container_id |-> threads[t].container_id,
                                               cmd |-> VerifyCmds[threads[t].step]])
        /\ IF threads[t].step < Len(VerifyCmds)
           THEN \E ok \in BOOLEAN :
                  threads' = [threads EXCEPT ![t] =
                     IF ok /\ Running(containers, threads[t].container_id)
                     THEN [@ EXCEPT !.step = @ + 1]
                     ELSE [pc |-> "done", op |-> "verify_solution",
                           container_id |-> threads[t].container_id,
                           ret |-> Raise("CalledProcessError")]]
           ELSE \E o \in {d \in VerifyOutcomes :
                            d.docker_ok => Running(containers, threads[t].container_id)} :
                  threads' = [threads EXCEPT ![t] =
                     [pc |-> "done", op |-> "verify_solution",
                      container_id |-> threads[t].container_id,
                      ret |-> verify_solution(o.docker_ok, o.stdout, threads[t].issue)]]
        /\ UNCHANGED <<hint_indices, active_sessions, containers, next_id, host, cli, call,
                       log>>

\* execute_command(): a complete request is read and
\* container_manager.execute_command(container_id, command) is entered.
ThreadExecuteCommand ==
    /\ host = "up"
    /\ NewThread \in Threads
    /\ \E request \in {r \in ExecuteRequests : r.json /\ ~IncompleteCommand(r)} :
        /\ threads' = threads @@
              (NewThread :> [pc |-> "execute_command", op |-> "execute_command",
                             container_id |-> request.containerId,
                             command |-> request.command])
        /\ UNCHANGED <<hint_indices, active_sessions, containers, next_id, host, cli, call,
                       log, docker_cmds>>

\* The `docker exec` of execute_command.
ThreadExecute ==
    \E t \in DOMAIN threads :
        /\ threads[t].pc = "execute_command"
        /\ docker_cmds' = Append(docker_cmds, [thread |-> t,
                                               container_id |-> threads[t].container_id,
                                               cmd |-> "exec"])
        /\ \E o \in ExecDraws(containers, [json |-> TRUE,
                                            containerId |-> threads[t].container_id,
                                            command |-> threads[t].command]) :
              threads' = [threads EXCEPT ![t] =
                 [pc |-> "done", op |-> "execute_command",
                  container_id |-> threads[t].container_id,
                  ret |-> execute_command(containers, threads[t].container_id,
                                          threads[t].command, o.started, o.exit_ok,
                                          o.stdout)]]
        /\ UNCHANGED <<hint_indices, active_sessions, containers, next_id, host, cli, call,
                       log>>

NextThreads ==
    \/ ApiGenerateIssue
    \/ ThreadGetHint \/ ThreadHintRead \/ ThreadHintReturn
    \/ ThreadVerifySolution \/ ThreadVerifyStep
    \/ ThreadExecuteCommand \/ ThreadExecute

SpecThreads == InitState /\ [][NextThreads]_vars

\* Two get_hint requests for one issue id that were in progress together,
\* both accepted while the cursor was c, with c + 1 < len(hints), and both
\* answered.
ConcurrentHints(t1, t2) ==
    /\ t1 # t2
    /\ Done(t1) /\ Done(t2)
    /\ threads[t1].op = "get_hint" /\ threads[t2].op = "get_hint"
    /\ threads[t1].issue = threads[t2].issue
    /\ t1 \in threads[t2].running
    /\ threads[t1].began_at = threads[t2].began_at
    /\ threads[t1].began_at + 1 < Len(HintsOf(threads[t1].issue))
    /\ \A u \in DOMAIN threads \ {t1, t2} : threads[u].op # "get_hint"

\* C16: two get_hint requests for one issue id running at the same time with
\* the cursor at c and c + 1 < len(hints) end as in some sequential order:
\* one is answered hints[c], the other hints[c + 1], and the cursor is c + 2.
C16_ConcurrentHintsSerialize ==
    \A t1, t2 \in DOMAIN threads :
        ConcurrentHints(t1, t2)
        => LET c == threads[t1].began_at
               hints == HintsOf(threads[t1].issue)
           IN  /\ {threads[t1].ret, threads[t2].ret}
                    = {Hint(c + 1, hints[c + 1]), Hint(c + 2, hints[c + 2])}
               /\ hint_indices[threads[t1].issue.id] = c + 2

\* C17: on one container, the docker commands of one verify_solution are not
\* interleaved with a docker command of another request: between two
\* commands of a verification no other thread's command names its container.
C17_VerifyStepsNotInterleaved ==
    \A i, j, k \in DOMAIN docker_cmds :
        (/\ i < j /\ j < k
         /\ docker_cmds[i].thread = docker_cmds[k].thread
         /\ docker_cmds[i].cmd # "exec"
         /\ docker_cmds[j].container_id = docker_cmds[i].container_id)
        => docker_cmds[j].thread = docker_cmds[i].thread

\* Whether main.start ran remove_container for this container.
TornDown(c) ==
    \E i \in DOMAIN docker_cmds :
        docker_cmds[i].container_id = c /\ docker_cmds[i].cmd = "rm"

\* C18: in main.start, once the loop has ended for whatever reason, the
\* removal of every container created during the run has been carried out;
\* and the previous container is removed before the next is created, so at
\* most one container awaits its removal at any time.
C18_TeardownOnExit ==
    /\ cli.pc = "exited" => \A c \in DOMAIN containers : TornDown(c)
    /\ cli.pc # "launched" => Cardinality({c \in DOMAIN containers : ~TornDown(c)}) <= 1

----------------------------------------------------------------------------
(* SpecGenerate: generate_issue called once, the chat completion returning *)
(* any record built from the values of FieldOptions.                       *)

Record(i, t, d, c, l, s, v, h, a, b) ==
    Field("id", i) @@ Field("title", t) @@ Field("description", d)
    @@ Field("category", c) @@ Field("difficulty", l)
    @@ Field("setup_script", s) @@ Field("verification_script", v)
    @@ Field("hints", h) @@ Field("solution", a) @@ Field("base_image", b)

\* What json.loads(content) can be.
LlmContents ==
    {Record(i, t, d, c, l, s, v, h, a, b) :
        i \in Options("id"), t \in Options("title"), d \in Options("description"),
        c \in Options("category"), l \in Options("difficulty"),
        s \in Options("setup_script"), v \in Options("verification_script"),
        h \in Options("hints"), a \in Options("solution"), b \in Options("base_image")}

\* The key is set or not, the completion arrives or not.
GenerateOutcomes ==
    {[api_key |-> TRUE, llm_ok |-> TRUE], [api_key |-> FALSE, llm_ok |-> TRUE],
     [api_key |-> TRUE, llm_ok |-> FALSE]}

GenerateCall ==
    /\ call = NoCall
    /\ \E content \in LlmContents, o \in GenerateOutcomes :
        /\ call' = [op |-> "generate_issue", content |-> content, outcome |-> o,
                    ret |-> generate_issue(o.api_key, o.llm_ok, content, next_id)]
        /\ next_id' = next_id + 1
        /\ UNCHANGED <<hint_indices, active_sessions, containers, host, cli, log, threads,
                       docker_cmds>>

NextGenerate == GenerateCall

SpecGenerate == InitState /\ [][NextGenerate]_vars

\* What validation asks of a record (C8).
SixFields ==
    {"title", "description", "setup_script", "verification_script", "hints", "solution"}
Acceptable(issue) == PresentNonEmpty(issue, SixFields) /\ LengthsAccepted(issue)

\* C19 as claimed: generate_issue returns only records that validation
\* accepts, rejects with an error every record that lacks a required field
\* or a length, and returns the generator's record field for field.
C19_ReturnsGeneratorRecord ==
    (call.op = "generate_issue" /\ call.outcome.api_key /\ call.outcome.llm_ok)
    => /\ ~Acceptable(call.content)
          => call.ret.raised /\ call.ret.error = "ValueError"
       /\ ~call.ret.raised
          => Acceptable(call.ret.issue) /\ call.ret.issue = call.content

\* C19, amended: as claimed, except that a record the generator returned
\* without an id, or with an empty one, is returned with an id added; every
\* other field is the generator's, and no other field is added.
C19_ReturnsRecordWithId ==
    (call.op = "generate_issue" /\ call.outcome.api_key /\ call.outcome.llm_ok)
    => /\ ~Acceptable(call.content)
          => call.ret.raised /\ call.ret.error = "ValueError"
       /\ ~call.ret.raised
          => /\ Acceptable(call.ret.issue)
             /\ DOMAIN call.ret.issue = DOMAIN call.content \cup {"id"}
             /\ \A k \in DOMAIN call.content \ {"id"} : call.ret.issue[k] = call.content[k]
             /\ call.ret.issue["id"] # <<>>
             /\ ("id" \in DOMAIN call.content /\ call.content["id"] # <<>>)
                => call.ret.issue = call.content

\* The generator returned an acceptable record without an id, and
\* generate_issue returned it with the id it made.
C19_Witness ==
    /\ call.op = "generate_issue"
    /\ ~call.ret.raised
    /\ "id" \notin DOMAIN call.content
    /\ call.ret.issue["id"] = uuid4(1)

\* Two successive get_hint calls of one run of main.start, made in two
\* sessions whose issues carry the same id, the later issue having hints.
SharedCursor(i) ==
    /\ log[i - 1].session # log[i].session
    /\ log[i - 1].issue.id = log[i].issue.id
    /\ HintsOf(log[i].issue) # <<>>

\* C20: the cursor is kept per issue id, not per session: when two sessions
\* hold issues with the same id, a get_hint made in one sets the index the
\* other's next get_hint starts from, so that after a hint given in the
\* first the second is not given its first hint but the one that follows.
C20_CursorSharedByIssueId ==
    \A i \in 2..Len(log) :
        SharedCursor(i)
        => LET id == log[i].issue.id
               hints == HintsOf(log[i].issue)
               c == log[i - 1].after[id]
           IN  /\ id \in DOMAIN log[i - 1].after
               /\ log[i].before = log[i - 1].after
               /\ (0 < c /\ c < Len(hints))
                  => /\ log[i].ret = Hint(c + 1, hints[c + 1])
                     /\ log[i].ret # Hint(1, hints[1])

\* A second session, whose issue has the id of the first session's issue,
\* asked for its first hint after the first session was given one, and got
\* the second hint.
C20_Witness ==
    /\ Len(log) = 2
    /\ SharedCursor(2)
    /\ log[1].ret.label = 1
    /\ log[2].ret.label = 2

====
